---- MODULE Spec2Model ----
(***************************************************************************)
(* Horizon Canvas (Rachel-Beiyu/bigpicture): the App component's session,  *)
(* note store, debounced persistence and canvas handlers, the Drive        *)
(* service and the AI-assist call of a note card, as one state machine.    *)
(*                                                                         *)
(* Units.  Time is in milliseconds.  Zoom is in thousandths (1000 = 1.0),  *)
(* so MIN_ZOOM 0.2 is 200.  World and screen coordinates are integers; the *)
(* inputs are chosen so that every division by the zoom is exact.          *)
(* JavaScript null is NoUser / NoFile / NoData.                            *)
(***************************************************************************)
EXTENDS Integers, Sequences, FiniteSets, TLC

\* ------------------------------------------------------------ constants
INITIAL_ZOOM == 1000
MIN_ZOOM == 200
MAX_ZOOM == 2500
SaveDebounceMs == 2000
NoteWidth == 400
NoteHeight == 320
Gap == 24
SpiralSteps == 100
DefaultWidth == 400
DefaultHeight == 300
MinWidth == 300
MinHeight == 200
InnerWidth == 1000
InnerHeight == 800
ZoomStep == 100

\* ------------------------------------------------------------ bounds
MaxIds == 2
MaxInflight == 2
MaxFiles == 1
MaxSessions == 2
MaxPlaced == 102
MaxSize == 640
MaxContent == 1
MaxPan == 200
MaxCoord == 600
MaxZoomSteps == 1
TickMs == SaveDebounceMs \div 2

\* ------------------------------------------------------------ values
NoUser == "null"
GuestUser == "guest"
CloudUser == "cloud"
NoFile == 0
NoData == [kind |-> "none", val |-> <<>>]

\* Stored text that JSON.parse rejects, and stored text that parses to a value other than
\* an array ("{}", "null", a number).
CorruptData == [kind |-> "corrupt", val |-> <<>>]
ObjectData == [kind |-> "object", val |-> <<>>]

AccessToken(u) == IF u = CloudUser THEN "token" ELSE ""

JSONstringify(ns) == [kind |-> "array", val |-> ns]

\* JSON.parse: ok is FALSE where it throws; val is the parsed array (no array is parsed
\* from an object payload).
JSONparse(s) ==
  IF s.kind = "array" THEN [ok |-> TRUE, val |-> s.val]
  ELSE IF s.kind = "object" THEN [ok |-> TRUE, val |-> <<>>]
  ELSE [ok |-> FALSE, val |-> <<>>]

\* notes.map in App's render throws when the value set by setNotes is not an array.
RenderThrows(s) == s.kind = "object"

NoteIds(ns) == {ns[i].id : i \in 1..Len(ns)}

\* ------------------------------------------------------------ note store
getDefaultNotes(id) ==
  << [id |-> id, title |-> "Welcome to Horizon", content |-> <<"welcome">>,
      x |-> InnerWidth \div 2 - 200, y |-> InnerHeight \div 2 - 150,
      width |-> DefaultWidth, height |-> DefaultHeight] >>

checkOverlapNoGap(ns, x, y) ==
  \E i \in 1..Len(ns) :
     /\ x < ns[i].x + ns[i].width
     /\ x + NoteWidth > ns[i].x
     /\ y < ns[i].y + ns[i].height
     /\ y + NoteHeight > ns[i].y

checkOverlap(ns, x, y) ==
  \E i \in 1..Len(ns) :
     /\ x < ns[i].x + ns[i].width + Gap
     /\ x + NoteWidth + Gap > ns[i].x
     /\ y < ns[i].y + ns[i].height + Gap
     /\ y + NoteHeight + Gap > ns[i].y

CellXNoGap(startX, cx) == startX + cx * NoteWidth

\* The world position of the spiral's grid cell (cx, cy).
CellX(startX, cx) == startX + cx * (NoteWidth + Gap)

CellY(startY, cy) == startY + cy * (NoteHeight + Gap)

\* finalX, finalY when the loop ends without a free cell: they keep their initial values.
FallbackPosition(startX, startY, cx, cy) == [x |-> startX, y |-> startY]

RECURSIVE SpiralSearch(_, _, _, _, _, _, _, _, _, _)
SpiralSearch(ns, startX, startY, i, d, len, lenCount, turnCount, cx, cy) ==
  IF i >= SpiralSteps
  THEN [found |-> FALSE, x |-> FallbackPosition(startX, startY, cx, cy).x,
        y |-> FallbackPosition(startX, startY, cx, cy).y, steps |-> i, cx |-> cx, cy |-> cy]
  ELSE LET cx1 == IF d = 0 THEN cx + 1 ELSE IF d = 2 THEN cx - 1 ELSE cx
           cy1 == IF d = 1 THEN cy + 1 ELSE IF d = 3 THEN cy - 1 ELSE cy
           lc1 == lenCount + 1
           turn == lc1 = len
           tc1 == IF turn THEN turnCount + 1 ELSE turnCount
           grow == turn /\ tc1 = 2
           tryX == CellX(startX, cx1)
           tryY == CellY(startY, cy1)
       IN IF ~checkOverlap(ns, tryX, tryY)
          THEN [found |-> TRUE, x |-> tryX, y |-> tryY, steps |-> i + 1, cx |-> cx1, cy |-> cy1]
          ELSE SpiralSearch(ns, startX, startY, i + 1,
                            IF turn THEN (d + 1) % 4 ELSE d,
                            IF grow THEN len + 1 ELSE len,
                            IF turn THEN 0 ELSE lc1,
                            IF grow THEN 0 ELSE tc1,
                            cx1, cy1)

\* x / zoom, the zoom in thousandths.
DivZoomIdentity(a, z) == a

DivZoom(a, z) == (a * 1000) \div z

\* addNote's position: the view centre, or the first free spiral cell.
PlaceNote(ns, cs) ==
  LET viewCenterX == DivZoom(-cs.offset.x + InnerWidth \div 2, cs.zoom)
      viewCenterY == DivZoom(-cs.offset.y + InnerHeight \div 2, cs.zoom)
      startX == viewCenterX - NoteWidth \div 2
      startY == viewCenterY - NoteHeight \div 2
  IN IF checkOverlap(ns, startX, startY)
     THEN SpiralSearch(ns, startX, startY, 0, 0, 1, 0, 0, 0, 0)
     ELSE [found |-> TRUE, x |-> startX, y |-> startY, steps |-> 0, cx |-> 0, cy |-> 0]

NewNote(id, p) ==
  [id |-> id, title |-> "New Note", content |-> <<"item">>,
   x |-> p.x, y |-> p.y, width |-> NoteWidth, height |-> NoteHeight]

\* { ...n, ...updates }: the fields of updates replace those of n.
Merge(n, updates) ==
  [f \in DOMAIN n |-> IF f \in DOMAIN updates THEN updates[f] ELSE n[f]]

updateNoteInAll(ns, id, updates) == [i \in 1..Len(ns) |-> Merge(ns[i], updates)]

updateNoteIn(ns, id, updates) ==
  [i \in 1..Len(ns) |-> IF ns[i].id = id THEN Merge(ns[i], updates) ELSE ns[i]]

deleteNoteIn(ns, id) == LET keep(n) == n.id # id IN SelectSeq(ns, keep)

\* ------------------------------------------------------------ state
VARIABLES
  user,            \* useState user: NoUser, GuestUser or CloudUser
  isGoogleReady,   \* useState isGoogleReady
  isAuthLoading,   \* useState isAuthLoading
  authError,       \* useState authError: "" is undefined
  driveFileId,     \* useState driveFileId: NoFile or a Drive file id
  saveStatus,      \* useState saveStatus
  notes,           \* useState notes: a sequence of notes
  timer,           \* the pending setTimeout of the save effect and what its closure captured
  inflight,        \* the saveToDrive calls of timer callbacks that await their response
  loginPc,         \* where handleLogin / syncFromDrive awaits: idle, signIn, find, load, create
  syncFile,        \* syncFromDrive's existingFile.id
  syncNotes,       \* syncFromDrive's initialNotes
  localStore,      \* localStorage['horizon_notes']
  drive,           \* the Drive files named horizon_canvas_data.json: drive[id] is the content
  nextId,          \* the next value uuidv4() returns
  canvasState,     \* useState canvasState: offset and zoom
  selectedNoteId,  \* useState selectedNoteId: 0 is null
  resizing,        \* ProjectCard: the document listeners of handleResizeStart and their closure
  aiReqs,          \* ProjectCard: the handleAiBrainstorm calls that await generateProjectIdeas
  apiKey,          \* process.env.API_KEY of geminiService and googleService, "" when missing
  scripts,         \* googleService: window.gapi and window.google, the two polling intervals,
                   \* gapiLoaded's position, gapiInited, gisInited, CLIENT_ID, tokenClient;
                   \* history: called, and calls, the number of invocations of onInit
  pointer,         \* useRef isDraggingCanvas, isDraggingNote, draggingNoteId (0 is null),
                   \* lastMousePos; history: released, no press since the last release
  unplaced,        \* history: the ids of the notes whose placement search found no free cell
  epoch,           \* history: the number of sessions started so far
  mut,             \* history: the time since the last note mutation and the writes issued since
  loginSnap,       \* history: what local persistence and Drive held when the session signed in,
                   \* clean: no mutation since; readFailed: loadDataFromDrive rejected
  ev               \* history: the last step taken

syncVars_but_ev == <<user, isGoogleReady, isAuthLoading, authError, driveFileId, saveStatus, notes,
                     timer, inflight, loginPc, syncFile, syncNotes, localStore, drive, nextId,
                     epoch, mut, loginSnap>>

syncVars == <<syncVars_but_ev, ev>>

canvasVars == <<canvasState, selectedNoteId>>

cardVars == <<resizing, aiReqs, apiKey, unplaced, pointer, scripts>>

vars == <<syncVars, canvasVars, cardVars>>

NoTimer == [active |-> FALSE, left |-> 0, notes |-> <<>>, user |-> NoUser, fileId |-> NoFile]

Event(type, ok) == [type |-> type, ok |-> ok]

NoMut == [live |-> FALSE, since |-> 0, writes |-> 0, steady |-> TRUE, count |-> 0,
          failed |-> FALSE, notes |-> <<>>]

NoResize == [active |-> FALSE, id |-> 0, startX |-> 0, startY |-> 0, startWidth |-> 0,
             startHeight |-> 0, zoom |-> INITIAL_ZOOM]

NoPointer == [isDraggingCanvas |-> FALSE, isDraggingNote |-> FALSE, draggingNoteId |-> 0,
              lastMousePos |-> [x |-> 0, y |-> 0], released |-> TRUE]

\* googleService's module state when both initializations are over.
ScriptsDone ==
  [gapi |-> TRUE, google |-> TRUE, checkGapi |-> FALSE, checkGis |-> FALSE, gapiPc |-> "done",
   gapiInited |-> TRUE, gisInited |-> TRUE, clientId |-> "id", tokenClient |-> TRUE,
   called |-> TRUE, calls |-> 1]

\* googleService's module state when the page is opened: the two scripts may be loaded.
ScriptsAtLoad(gapi, google, clientId) ==
  [gapi |-> gapi, google |-> google, checkGapi |-> FALSE, checkGis |-> FALSE, gapiPc |-> "idle",
   gapiInited |-> FALSE, gisInited |-> FALSE, clientId |-> clientId, tokenClient |-> FALSE,
   called |-> FALSE, calls |-> 0]

NoSnap == [local |-> NoData, hadDoc |-> FALSE, clean |-> FALSE, readFailed |-> FALSE]

\* What local persistence and the Drive account may hold when the page is opened.
SavedGuestNotes == << [id |-> 0, title |-> "New Note", content |-> <<"guest">>,
                      x |-> 40, y |-> 40, width |-> NoteWidth, height |-> NoteHeight] >>

SavedCloudNotes == << [id |-> 0, title |-> "New Note", content |-> <<"cloud">>,
                      x |-> 40, y |-> 40, width |-> NoteWidth, height |-> NoteHeight] >>

InitLocal == {NoData, JSONstringify(SavedGuestNotes)}

InitDrive == {<<>>, <<JSONstringify(SavedCloudNotes)>>}

\* The App as mounted, whatever the stores and the configuration hold.
PageState ==
  /\ user = NoUser
  /\ isGoogleReady = FALSE
  /\ isAuthLoading = FALSE
  /\ authError = ""
  /\ driveFileId = NoFile
  /\ saveStatus = "saved"
  /\ notes = <<>>
  /\ timer = NoTimer
  /\ inflight = <<>>
  /\ loginPc = "idle"
  /\ syncFile = NoFile
  /\ syncNotes = <<>>
  /\ nextId = 1
  /\ epoch = 0
  /\ canvasState = [offset |-> [x |-> 0, y |-> 0], zoom |-> INITIAL_ZOOM]
  /\ selectedNoteId = 0
  /\ resizing = NoResize
  /\ pointer = NoPointer
  /\ aiReqs = {}
  /\ unplaced = {}
  /\ mut = NoMut
  /\ loginSnap = NoSnap
  /\ ev = Event("init", TRUE)

\* The page as opened with both keys configured and both scripts loaded.
PageLoad ==
  /\ PageState
  /\ apiKey = "key"
  /\ scripts = ScriptsAtLoad(TRUE, TRUE, "id")

Init ==
  /\ PageLoad
  /\ localStore \in InitLocal
  /\ drive \in InitDrive

\* ------------------------------------------------------------ the save effect
\* The effect of [notes, user, driveFileId]: its cleanup clears the pending timer; with a
\* user it sets the status to saving and starts a timer that captures the three values.
EffectTimerNoRestart(u, ns, fid) ==
  IF u = NoUser THEN NoTimer
  ELSE IF timer.active THEN timer
  ELSE [active |-> TRUE, left |-> SaveDebounceMs, notes |-> ns, user |-> u, fileId |-> fid]

EffectTimerAnyUser(u, ns, fid) ==
  [active |-> TRUE, left |-> SaveDebounceMs, notes |-> ns, user |-> u, fileId |-> fid]

EffectTimer(u, ns, fid) ==
  IF u = NoUser THEN NoTimer
  ELSE [active |-> TRUE, left |-> SaveDebounceMs, notes |-> ns, user |-> u, fileId |-> fid]

EffectStatusKeep(u, st) == st

EffectStatus(u, st) == IF u = NoUser THEN st ELSE "saving"

CommitEveryRender(u, ns, notesSet, fid, st) ==
  /\ user' = u
  /\ notes' = ns
  /\ driveFileId' = fid
  /\ timer' = EffectTimer(u, ns, fid)
  /\ saveStatus' = EffectStatus(u, st)

\* One render: the state updates a handler (or the continuation of an await) batched,
\* then the effect when a dependency changed.  setNotes always passes a new array.
Commit(u, ns, notesSet, fid, st) ==
  LET changed == u # user \/ notesSet \/ fid # driveFileId
  IN /\ user' = u
     /\ notes' = ns
     /\ driveFileId' = fid
     /\ timer' = IF changed THEN EffectTimer(u, ns, fid) ELSE timer
     /\ saveStatus' = IF changed THEN EffectStatus(u, st) ELSE st

\* A render after a state update that is no dependency of the save effect
\* (setCanvasState, setSelectedNoteId).
Render ==
  /\ Commit(user, notes, FALSE, driveFileId, saveStatus)
  /\ UNCHANGED <<isGoogleReady, isAuthLoading, authError, inflight, loginPc, syncFile,
                 syncNotes, localStore, drive, nextId, epoch, mut, loginSnap>>

UseCloudSave(u, fid) == AccessToken(u) # "" /\ fid # NoFile

DriveMethodAlwaysPost(fid) == "POST"

\* saveToDrive's request: PATCH the file of the handle, POST a new file without one.
DriveMethod(fid) == IF fid # NoFile THEN "PATCH" ELSE "POST"

DriveApply(d, fid, content) ==
  IF DriveMethod(fid) = "PATCH"
  THEN [d EXCEPT ![fid] = content]
  ELSE Append(d, content)

\* ------------------------------------------------------------ history bookkeeping
Min(a, b) == IF a < b THEN a ELSE b

\* A user's mutation of the note collection: it joins the burst whose write is pending,
\* or starts one.
Mutated(ns) ==
  [live |-> TRUE, since |-> 0, writes |-> 0, steady |-> TRUE,
   count |-> IF mut.live /\ mut.writes = 0 THEN 2 ELSE 1,
   failed |-> mut.failed, notes |-> ns]

\* A debounced write failed.
Failed(m) == [m EXCEPT !.failed = TRUE]

\* A persistence write was issued.
Wrote(m) == [m EXCEPT !.writes = Min(m.writes + 1, 2)]

\* The sign-in sync changed a dependency of the save effect.
Unsteady(m) == [m EXCEPT !.steady = FALSE]

Elapsed(m) == [m EXCEPT !.since = Min(m.since + TickMs, SaveDebounceMs + TickMs)]

\* ------------------------------------------------------------ sign-in and sync
\* initGoogleScripts' onInit callback.
OnInit ==
  /\ ~isGoogleReady
  /\ isGoogleReady' = TRUE
  /\ scripts' = ScriptsDone
  /\ ev' = Event("ready", TRUE)
  /\ UNCHANGED <<user, isAuthLoading, authError, driveFileId, saveStatus, notes, timer,
                 inflight, loginPc, syncFile, syncNotes, localStore, drive, nextId, epoch,
                 mut, loginSnap, canvasVars, resizing, aiReqs, apiKey, unplaced, pointer>>

\* The login page shows without a user; its buttons are disabled while loading.
LoginEnabled == user = NoUser /\ isGoogleReady /\ ~isAuthLoading

\* handleLogin up to the await of signIn.
HandleLogin ==
  /\ LoginEnabled
  /\ epoch < MaxSessions
  /\ isAuthLoading' = TRUE
  /\ authError' = ""
  /\ loginPc' = "signIn"
  /\ ev' = Event("login", TRUE)
  /\ UNCHANGED <<user, isGoogleReady, driveFileId, saveStatus, notes, timer, inflight,
                 syncFile, syncNotes, localStore, drive, nextId, epoch, mut, loginSnap,
                 canvasVars, cardVars>>

SignInRejectedSilent ==
  /\ loginPc = "signIn"
  /\ authError' = ""
  /\ isAuthLoading' = FALSE
  /\ loginPc' = "idle"
  /\ ev' = Event("signIn", FALSE)
  /\ UNCHANGED <<user, isGoogleReady, driveFileId, saveStatus, notes, timer, inflight,
                 syncFile, syncNotes, localStore, drive, nextId, epoch, mut, loginSnap,
                 canvasVars, cardVars>>

\* signIn rejects: handleLogin's catch and finally.
SignInRejected ==
  /\ loginPc = "signIn"
  /\ authError' = "Failed to sign in"
  /\ isAuthLoading' = FALSE
  /\ loginPc' = "idle"
  /\ ev' = Event("signIn", FALSE)
  /\ UNCHANGED <<user, isGoogleReady, driveFileId, saveStatus, notes, timer, inflight,
                 syncFile, syncNotes, localStore, drive, nextId, epoch, mut, loginSnap,
                 canvasVars, cardVars>>

\* signIn resolves: setUser, then syncFromDrive up to the await of findSaveFile.
SignInResolved ==
  /\ loginPc = "signIn"
  /\ Commit(CloudUser, notes, FALSE, driveFileId, "saving")
  /\ loginPc' = "find"
  /\ epoch' = epoch + 1
  /\ mut' = NoMut
  /\ loginSnap' = [local |-> localStore, hadDoc |-> Len(drive) > 0, clean |-> TRUE,
                  readFailed |-> FALSE]
  /\ ev' = Event("signIn", TRUE)
  /\ UNCHANGED <<isGoogleReady, isAuthLoading, authError, inflight, syncFile, syncNotes,
                 localStore, drive, nextId, canvasVars, cardVars>>

\* findSaveFile returns files[0].
FindFound ==
  /\ loginPc = "find"
  /\ \E id \in 1..Len(drive) :
       /\ Commit(user, notes, FALSE, id, saveStatus)
       /\ syncFile' = id
       /\ ev' = Event("find", TRUE)
  /\ loginPc' = "load"
  /\ mut' = Unsteady(mut)
  /\ UNCHANGED <<isGoogleReady, isAuthLoading, authError, inflight, syncNotes, localStore,
                 drive, nextId, epoch, loginSnap, canvasVars, cardVars>>

\* The migration branch's initialNotes, from localStorage or the default notes.
LocalNotes(s) == IF s.kind # "none" /\ JSONparse(s).ok THEN JSONparse(s).val ELSE <<>>

MigrationNotes(s, id) == IF Len(LocalNotes(s)) = 0 THEN getDefaultNotes(id) ELSE LocalNotes(s)

\* findSaveFile returns null: no file (failed FALSE), or its catch (failed TRUE: the list
\* request rejected, or the Drive API is not loaded).  syncFromDrive goes on to the
\* await of saveToDrive(initialNotes, null).
FindNull(failed) ==
  /\ loginPc = "find"
  /\ failed \/ Len(drive) = 0
  /\ Len(LocalNotes(localStore)) = 0 => nextId <= MaxIds
  /\ LET initialNotes == MigrationNotes(localStore, nextId)
     IN /\ Commit(user, initialNotes, TRUE, driveFileId, saveStatus)
        /\ syncNotes' = initialNotes
        /\ nextId' = IF Len(LocalNotes(localStore)) = 0 THEN nextId + 1 ELSE nextId
  /\ loginPc' = "create"
  /\ mut' = Wrote(Unsteady(mut))
  /\ ev' = Event("find", ~failed)
  /\ UNCHANGED <<isGoogleReady, isAuthLoading, authError, inflight, syncFile, localStore,
                 drive, epoch, loginSnap, canvasVars, cardVars>>

\* loadDataFromDrive resolves: setNotes(data), setSaveStatus('saved'), handleLogin's finally.
LoadResolved ==
  /\ loginPc = "load"
  /\ Commit(user, JSONparse(drive[syncFile]).val, TRUE, driveFileId, "saved")
  /\ loginPc' = "idle"
  /\ isAuthLoading' = FALSE
  /\ mut' = Unsteady(mut)
  /\ ev' = Event("load", TRUE)
  /\ UNCHANGED <<isGoogleReady, authError, inflight, syncFile, syncNotes, localStore, drive,
                 nextId, epoch, loginSnap, canvasVars, cardVars>>

\* loadDataFromDrive rejects: syncFromDrive's catch.
LoadRejected ==
  /\ loginPc = "load"
  /\ saveStatus' = "error"
  /\ loginPc' = "idle"
  /\ isAuthLoading' = FALSE
  /\ ev' = Event("load", FALSE)
  /\ loginSnap' = [loginSnap EXCEPT !.readFailed = TRUE]
  /\ UNCHANGED <<user, isGoogleReady, authError, driveFileId, notes, timer, inflight,
                 syncFile, syncNotes, localStore, drive, nextId, epoch, mut,
                 canvasVars, cardVars>>

\* saveToDrive(initialNotes, null) resolves with the new file's id.
CreateResolved ==
  /\ loginPc = "create"
  /\ Len(drive) < MaxFiles
  /\ drive' = DriveApply(drive, NoFile, JSONstringify(syncNotes))
  /\ Commit(user, notes, FALSE, Len(drive) + 1, "saved")
  /\ loginPc' = "idle"
  /\ isAuthLoading' = FALSE
  /\ mut' = Unsteady(mut)
  /\ ev' = Event("create", TRUE)
  /\ UNCHANGED <<isGoogleReady, authError, inflight, syncFile, syncNotes, localStore,
                 nextId, epoch, loginSnap, canvasVars, cardVars>>

\* saveToDrive(initialNotes, null) rejects: syncFromDrive's catch.
CreateRejected ==
  /\ loginPc = "create"
  /\ saveStatus' = "error"
  /\ loginPc' = "idle"
  /\ isAuthLoading' = FALSE
  /\ ev' = Event("create", FALSE)
  /\ UNCHANGED <<user, isGoogleReady, authError, driveFileId, notes, timer, inflight,
                 syncFile, syncNotes, localStore, drive, nextId, epoch, mut, loginSnap,
                 canvasVars, cardVars>>

\* ------------------------------------------------------------ guest entry, sign-out
\* handleGuestLogin's notes: the parsed local data, the default notes when there is none
\* or JSON.parse throws.
GuestNotes(s, id) ==
  IF s.kind # "none" /\ JSONparse(s).ok THEN JSONparse(s).val ELSE getDefaultNotes(id)

GuestNeedsDefault(s) == ~(s.kind # "none" /\ JSONparse(s).ok)

\* The render of the value handleGuestLogin set threw: nothing is committed and React
\* unmounts the tree.
GuestEntryThrows ==
  /\ ev' = Event("guest", FALSE)
  /\ UNCHANGED <<syncVars_but_ev, canvasVars, cardVars>>

handleGuestLogin ==
  /\ LoginEnabled
  /\ epoch < MaxSessions
  /\ GuestNeedsDefault(localStore) => nextId <= MaxIds
  /\ IF RenderThrows(localStore)
     THEN GuestEntryThrows
     ELSE /\ Commit(GuestUser, GuestNotes(localStore, nextId), TRUE, driveFileId, saveStatus)
          /\ nextId' = IF GuestNeedsDefault(localStore) THEN nextId + 1 ELSE nextId
          /\ epoch' = epoch + 1
          /\ mut' = NoMut
          /\ loginSnap' = NoSnap
          /\ ev' = Event("guest", TRUE)
          /\ UNCHANGED <<isGoogleReady, isAuthLoading, authError, inflight, loginPc, syncFile,
                         syncNotes, localStore, drive, canvasVars, cardVars>>

handleSignOut ==
  /\ user # NoUser
  /\ Commit(NoUser, <<>>, TRUE, NoFile, saveStatus)
  /\ mut' = NoMut
  /\ loginSnap' = [loginSnap EXCEPT !.clean = FALSE]
  /\ ev' = Event("signOut", TRUE)
  /\ UNCHANGED <<isGoogleReady, isAuthLoading, authError, inflight, loginPc, syncFile,
                 syncNotes, localStore, drive, nextId, epoch, canvasVars, cardVars>>

\* ------------------------------------------------------------ note mutations
\* What every handler that calls setNotes does to the session: the render and its effect.
SetNotes(ns) ==
  /\ Commit(user, ns, TRUE, driveFileId, saveStatus)
  /\ mut' = Mutated(ns)
  /\ loginSnap' = [loginSnap EXCEPT !.clean = FALSE]
  /\ UNCHANGED <<isGoogleReady, isAuthLoading, authError, inflight, loginPc, syncFile,
                 syncNotes, localStore, drive, epoch>>

\* addNote, while uuidv4 has ids within the bound.
AddNoteUpTo(limit) ==
  /\ user # NoUser
  /\ nextId <= limit
  /\ SetNotes(Append(notes, NewNote(nextId, PlaceNote(notes, canvasState))))
  /\ selectedNoteId' = nextId
  /\ nextId' = nextId + 1
  /\ unplaced' = IF PlaceNote(notes, canvasState).found THEN unplaced ELSE unplaced \cup {nextId}
  /\ ev' = Event("mutate", TRUE)
  /\ UNCHANGED <<canvasState, resizing, aiReqs, apiKey, scripts, pointer>>

addNote == AddNoteUpTo(MaxIds)

\* The event of an update or a deletion: the caller may hold the id of a note that is no
\* longer in the store.
MutateEvent(id) == Event(IF id \in NoteIds(notes) THEN "mutate" ELSE "mutateStale", TRUE)

updateNote(id, updates) ==
  /\ user # NoUser
  /\ SetNotes(updateNoteIn(notes, id, updates))
  /\ ev' = MutateEvent(id)
  /\ UNCHANGED <<nextId, canvasVars, cardVars>>

deleteNote(id) ==
  /\ user # NoUser
  /\ SetNotes(deleteNoteIn(notes, id))
  /\ ev' = MutateEvent(id)
  /\ UNCHANGED <<nextId, canvasVars, cardVars>>

\* ------------------------------------------------------------ the debounced save
Tick ==
  /\ ~(timer.active /\ timer.left = 0)
  /\ timer.active \/ (mut.live /\ mut.since <= SaveDebounceMs)
  /\ timer' = IF timer.active THEN [timer EXCEPT !.left = timer.left - TickMs] ELSE timer
  /\ mut' = IF mut.live THEN Elapsed(mut) ELSE mut
  /\ ev' = Event("tick", TRUE)
  /\ UNCHANGED <<user, isGoogleReady, isAuthLoading, authError, driveFileId, saveStatus,
                 notes, inflight, loginPc, syncFile, syncNotes, localStore, drive, nextId,
                 epoch, loginSnap, canvasVars, cardVars>>

\* The timer callback with a token and a handle, up to the await of saveToDrive.
TimerCloud ==
  /\ timer.active /\ timer.left = 0
  /\ UseCloudSave(timer.user, timer.fileId)
  /\ Len(inflight) < MaxInflight
  /\ inflight' = Append(inflight, [data |-> timer.notes, fileId |-> timer.fileId,
                                   epoch |-> epoch])
  /\ timer' = NoTimer
  /\ mut' = Wrote(mut)
  /\ ev' = Event("fire", TRUE)
  /\ UNCHANGED <<user, isGoogleReady, isAuthLoading, authError, driveFileId, saveStatus,
                 notes, loginPc, syncFile, syncNotes, localStore, drive, nextId, epoch,
                 loginSnap, canvasVars, cardVars>>

\* The timer callback otherwise: localStorage.setItem, which may throw (ok FALSE).
TimerLocal(ok) ==
  /\ timer.active /\ timer.left = 0
  /\ ~UseCloudSave(timer.user, timer.fileId)
  /\ localStore' = IF ok THEN JSONstringify(timer.notes) ELSE localStore
  /\ saveStatus' = IF ok THEN "saved" ELSE "error"
  /\ timer' = NoTimer
  /\ mut' = IF ok THEN Wrote(mut) ELSE Failed(Wrote(mut))
  /\ ev' = Event("fire", ok)
  /\ UNCHANGED <<user, isGoogleReady, isAuthLoading, authError, driveFileId, notes,
                 inflight, loginPc, syncFile, syncNotes, drive, nextId, epoch, loginSnap,
                 canvasVars, cardVars>>

RemoveAt(s, i) == SubSeq(s, 1, i - 1) \o SubSeq(s, i + 1, Len(s))

\* The saveToDrive of a timer callback settles: the callback's setSaveStatus.
WriteSettled(i, ok) ==
  /\ i \in 1..Len(inflight)
  /\ drive' = IF ok THEN DriveApply(drive, inflight[i].fileId, JSONstringify(inflight[i].data))
              ELSE drive
  /\ saveStatus' = IF ok THEN "saved" ELSE "error"
  /\ inflight' = RemoveAt(inflight, i)
  /\ mut' = IF ok THEN mut ELSE Failed(mut)
  /\ ev' = Event("settled", ok)
  /\ UNCHANGED <<user, isGoogleReady, isAuthLoading, authError, driveFileId, notes, timer,
                 loginPc, syncFile, syncNotes, localStore, nextId, epoch, loginSnap,
                 canvasVars, cardVars>>

\* ------------------------------------------------------------ the session's specification
Next ==
  \/ OnInit
  \/ HandleLogin
  \/ SignInRejected
  \/ SignInResolved
  \/ FindFound
  \/ \E failed \in BOOLEAN : FindNull(failed)
  \/ LoadResolved
  \/ LoadRejected
  \/ CreateResolved
  \/ CreateRejected
  \/ handleGuestLogin
  \/ handleSignOut
  \/ addNote
  \/ Tick
  \/ TimerCloud
  \/ \E ok \in BOOLEAN : TimerLocal(ok)
  \/ \E i \in 1..Len(inflight), ok \in BOOLEAN : WriteSettled(i, ok)

Spec == Init /\ [][Next]_vars

\* ------------------------------------------------------------ a backend that succeeds
\* The session when every backend call succeeds: timers fire when due and every request
\* is answered.
LiveNext ==
  \/ OnInit
  \/ HandleLogin
  \/ SignInResolved
  \/ FindFound
  \/ FindNull(FALSE)
  \/ LoadResolved
  \/ CreateResolved
  \/ handleGuestLogin
  \/ handleSignOut
  \/ addNote
  \/ Tick
  \/ TimerCloud
  \/ TimerLocal(TRUE)
  \/ \E i \in 1..Len(inflight) : WriteSettled(i, TRUE)

LiveFairness ==
  /\ WF_vars(Tick)
  /\ WF_vars(TimerCloud)
  /\ WF_vars(TimerLocal(TRUE))
  /\ WF_vars(\E i \in 1..Len(inflight) : WriteSettled(i, TRUE))
  /\ WF_vars(FindFound)
  /\ WF_vars(FindNull(FALSE))
  /\ WF_vars(LoadResolved)
  /\ WF_vars(CreateResolved)

SpecLive == Init /\ [][LiveNext]_vars /\ LiveFairness

\* ------------------------------------------------------------ a guest session
\* The state handleGuestLogin leaves when the page was opened with `local` in localStorage.
GuestSession(local) ==
  /\ user = GuestUser
  /\ isGoogleReady = TRUE
  /\ isAuthLoading = FALSE
  /\ authError = ""
  /\ driveFileId = NoFile
  /\ saveStatus = "saving"
  /\ notes = GuestNotes(local, 1)
  /\ timer = [active |-> TRUE, left |-> SaveDebounceMs, notes |-> GuestNotes(local, 1),
              user |-> GuestUser, fileId |-> NoFile]
  /\ inflight = <<>>
  /\ loginPc = "idle"
  /\ syncFile = NoFile
  /\ syncNotes = <<>>
  /\ localStore = local
  /\ drive = <<>>
  /\ nextId = IF GuestNeedsDefault(local) THEN 2 ELSE 1
  /\ canvasState = [offset |-> [x |-> 0, y |-> 0], zoom |-> INITIAL_ZOOM]
  /\ selectedNoteId = 0
  /\ resizing = NoResize
  /\ pointer = NoPointer
  /\ scripts = ScriptsDone
  /\ aiReqs = {}
  /\ unplaced = {}
  /\ epoch = 1
  /\ mut = NoMut
  /\ loginSnap = NoSnap
  /\ ev = Event("guest", TRUE)

\* ------------------------------------------------------------ guest mode
\* What local persistence may hold when a guest opens the page.
GuestLocal ==
  {NoData, CorruptData, ObjectData, JSONstringify(SavedGuestNotes), JSONstringify(<<>>)}

\* The tree is mounted: no render has thrown.
Mounted == ev # Event("guest", FALSE)

GuestInit ==
  /\ PageLoad
  /\ localStore \in GuestLocal
  /\ drive = <<>>

GuestNext ==
  \/ Mounted /\ OnInit
  \/ Mounted /\ handleGuestLogin
  \/ Mounted /\ handleSignOut
  \/ Mounted /\ addNote
  \/ \E id \in NoteIds(notes) : Mounted /\ deleteNote(id)
  \/ Mounted /\ Tick
  \/ \E ok \in BOOLEAN : Mounted /\ TimerLocal(ok)

SpecGuest == GuestInit /\ [][GuestNext]_vars

\* ------------------------------------------------------------ the note store and the resize handle
Max(a, b) == IF a > b THEN a ELSE b

\* The clientX / clientY of the pointer events.
Pointers == {[x |-> 0, y |-> 0], [x |-> 200, y |-> 200]}

\* The partial notes passed to updateNote.
UpdateInputs ==
  { [width |-> 250, height |-> 150], [width |-> 640, height |-> 480],
    [content |-> <<"edited">>], [id |-> 1] }

NoteAt(ns, id) == ns[CHOOSE i \in 1..Len(ns) : ns[i].id = id]

\* ProjectCard's handleResizeStart on the card of note id.
handleResizeStart(id, p) ==
  /\ user # NoUser
  /\ ~resizing.active
  /\ id \in NoteIds(notes)
  /\ resizing' = [active |-> TRUE, id |-> id, startX |-> p.x, startY |-> p.y,
                  startWidth |-> NoteAt(notes, id).width,
                  startHeight |-> NoteAt(notes, id).height,
                  zoom |-> canvasState.zoom]
  /\ pointer' = [pointer EXCEPT !.released = FALSE]
  /\ ev' = Event("resizeStart", TRUE)
  /\ UNCHANGED <<syncVars_but_ev, canvasVars, aiReqs, apiKey, scripts, unplaced>>

\* The update of the resize handle's mousemove listener.
ResizeUpdate(r, p) ==
  [width |-> Max(MinWidth, r.startWidth + DivZoom(p.x - r.startX, r.zoom)),
   height |-> Max(MinHeight, r.startHeight + DivZoom(p.y - r.startY, r.zoom))]

\* The pointer stays within the window: a card grows no larger than MaxSize.
ResizeMove(p) ==
  /\ resizing.active
  /\ ResizeUpdate(resizing, p).width <= MaxSize
  /\ ResizeUpdate(resizing, p).height <= MaxSize
  /\ updateNote(resizing.id, ResizeUpdate(resizing, p))

\* The resize handle's mouseup listener removes both listeners.
ResizeEnd ==
  /\ resizing.active
  /\ resizing' = NoResize
  /\ ev' = Event("resizeEnd", TRUE)
  /\ pointer' = [pointer EXCEPT !.released = TRUE]
  /\ UNCHANGED <<syncVars_but_ev, canvasVars, aiReqs, apiKey, scripts, unplaced>>

StoreInit == GuestSession(NoData) /\ apiKey = "key"

StoreNext ==
  \/ addNote
  \/ \E id \in 0..nextId, u \in UpdateInputs : updateNote(id, u)
  \/ \E id \in 0..nextId : deleteNote(id)
  \/ \E id \in NoteIds(notes), p \in Pointers : handleResizeStart(id, p)
  \/ \E p \in Pointers : ResizeMove(p)
  \/ ResizeEnd

SpecStore == StoreInit /\ [][StoreNext]_vars

\* ------------------------------------------------------------ placement
ClampZoomFloorOnly(z) == Max(z, MIN_ZOOM)

\* Math.min(Math.max(z, MIN_ZOOM), MAX_ZOOM)
ClampZoom(z) == Min(Max(z, MIN_ZOOM), MAX_ZOOM)

\* handleWheel: zoom with the modifier key, pan without.
handleWheel(e) ==
  /\ user # NoUser
  /\ canvasState' =
       IF e.ctrlKey
       THEN [canvasState EXCEPT !.zoom = ClampZoom(canvasState.zoom - e.deltaY)]
       ELSE [canvasState EXCEPT !.offset = [x |-> canvasState.offset.x - e.deltaX,
                                            y |-> canvasState.offset.y - e.deltaY]]
  /\ ev' = Event("wheel", TRUE)
  /\ Render
  /\ UNCHANGED <<selectedNoteId, cardVars>>

\* The wheel events: a pan that ends within the gap of a note placed before it, and a
\* zoom out.
WheelEvents ==
  { [ctrlKey |-> FALSE, deltaX |-> NoteWidth + Gap \div 2, deltaY |-> (NoteHeight + Gap) \div 2],
    [ctrlKey |-> TRUE, deltaX |-> 0, deltaY |-> INITIAL_ZOOM \div 2] }

\* The view moves once each way, before the second note is placed.
ViewMayMove(e) ==
  /\ Len(notes) <= 1
  /\ ~e.ctrlKey => canvasState.offset.x = 0
  /\ e.ctrlKey => canvasState.zoom = INITIAL_ZOOM

PlaceInit == GuestSession(JSONstringify(<<>>)) /\ apiKey = "key"

PlaceNext ==
  \/ AddNoteUpTo(MaxPlaced)
  \/ \E e \in WheelEvents : ViewMayMove(e) /\ handleWheel(e)

SpecPlace == PlaceInit /\ [][PlaceNext]_vars

\* ------------------------------------------------------------ the view
\* The Zoom Out and Zoom In buttons.
ZoomOutButton ==
  /\ user # NoUser
  /\ canvasState' = [canvasState EXCEPT !.zoom = Max(canvasState.zoom - ZoomStep, MIN_ZOOM)]
  /\ ev' = Event("zoomOut", TRUE)
  /\ Render
  /\ UNCHANGED <<selectedNoteId, cardVars>>

ZoomInButton ==
  /\ user # NoUser
  /\ canvasState' = [canvasState EXCEPT !.zoom = Min(canvasState.zoom + ZoomStep, MAX_ZOOM)]
  /\ ev' = Event("zoomIn", TRUE)
  /\ Render
  /\ UNCHANGED <<selectedNoteId, cardVars>>

\* Wheel events with the modifier key, small and far beyond the range, and pans.
CanvasWheel ==
  { [ctrlKey |-> TRUE, deltaX |-> 0, deltaY |-> dy] : dy \in {-3000, -50, 50, 3000} } \cup
  { [ctrlKey |-> FALSE, deltaX |-> dx, deltaY |-> 0] : dx \in {-100, 100} }

\* The pan stays within MaxPan of the origin.
PanStays(e) ==
  e.ctrlKey \/ (canvasState.offset.x - e.deltaX <= MaxPan /\ canvasState.offset.x - e.deltaX >= -MaxPan)

CanvasInit == GuestSession(NoData) /\ apiKey = "key"

CanvasNext ==
  \/ \E e \in CanvasWheel : PanStays(e) /\ handleWheel(e)
  \/ ZoomOutButton
  \/ ZoomInButton

SpecCanvas == CanvasInit /\ [][CanvasNext]_vars

\* ------------------------------------------------------------ pointer interaction
\* The notes after a drag of (dx, dy) screen pixels of note id.
DragNotes(ns, id, dx, dy, zoom) ==
  [i \in 1..Len(ns) |->
     IF ns[i].id = id
     THEN [ns[i] EXCEPT !.x = ns[i].x + DivZoom(dx, zoom), !.y = ns[i].y + DivZoom(dy, zoom)]
     ELSE ns[i]]

\* handleMouseDown: a press that reaches the root element.
handleMouseDown(p) ==
  /\ user # NoUser
  /\ pointer' = IF pointer.draggingNoteId # 0
                THEN [pointer EXCEPT !.released = FALSE]
                ELSE [pointer EXCEPT !.isDraggingCanvas = TRUE, !.lastMousePos = p,
                                     !.released = FALSE]
  /\ ev' = Event("mouseDown", TRUE)
  /\ UNCHANGED <<syncVars_but_ev, canvasVars, resizing, aiReqs, apiKey, scripts, unplaced>>

\* onNoteStartDrag: a press on the header of the card of note id; it does not propagate.
onNoteStartDrag(id, p) ==
  /\ user # NoUser
  /\ id \in NoteIds(notes)
  /\ pointer' = [pointer EXCEPT !.isDraggingNote = TRUE, !.draggingNoteId = id,
                                !.lastMousePos = p, !.released = FALSE]
  /\ selectedNoteId' = id
  /\ ev' = Event("startDrag", TRUE)
  /\ UNCHANGED <<syncVars_but_ev, canvasState, resizing, aiReqs, apiKey, scripts, unplaced>>

handleMouseMove(p) ==
  /\ user # NoUser
  /\ ev' = Event("mouseMove", TRUE)
  /\ IF pointer.isDraggingNote /\ pointer.draggingNoteId # 0
     THEN /\ SetNotes(DragNotes(notes, pointer.draggingNoteId, p.x - pointer.lastMousePos.x,
                                p.y - pointer.lastMousePos.y, canvasState.zoom))
          /\ pointer' = [pointer EXCEPT !.lastMousePos = p]
          /\ UNCHANGED <<nextId, canvasVars, resizing, aiReqs, apiKey, scripts, unplaced>>
     ELSE IF pointer.isDraggingCanvas
     THEN /\ canvasState' =
               [canvasState EXCEPT !.offset = [x |-> canvasState.offset.x + p.x - pointer.lastMousePos.x,
                                               y |-> canvasState.offset.y + p.y - pointer.lastMousePos.y]]
          /\ pointer' = [pointer EXCEPT !.lastMousePos = p]
          /\ Render
          /\ UNCHANGED <<selectedNoteId, resizing, aiReqs, apiKey, scripts, unplaced>>
     ELSE UNCHANGED <<syncVars_but_ev, canvasVars, cardVars>>

\* handleMouseUp, the root element's onMouseUp and onMouseLeave.
handleMouseUp ==
  /\ user # NoUser
  /\ pointer' = [pointer EXCEPT !.isDraggingCanvas = FALSE, !.isDraggingNote = FALSE,
                                !.draggingNoteId = 0, !.released = TRUE]

\* The button is released: the root's onMouseUp and the resize handle's document listener.
MouseUp ==
  /\ handleMouseUp
  /\ resizing' = NoResize
  /\ ev' = Event("mouseUp", TRUE)
  /\ UNCHANGED <<syncVars_but_ev, canvasVars, aiReqs, apiKey, scripts, unplaced>>

\* The pointer leaves the root element: onMouseLeave only.
MouseLeave ==
  /\ handleMouseUp
  /\ ev' = Event("mouseLeave", TRUE)
  /\ UNCHANGED <<syncVars_but_ev, canvasVars, resizing, aiReqs, apiKey, scripts, unplaced>>

\* The pointer stays within the window: a dragged note stays within MaxCoord of the left
\* edge and the view within MaxPan of the origin.
DragStays(p) ==
  LET x == NoteAt(notes, pointer.draggingNoteId).x
               + DivZoom(p.x - pointer.lastMousePos.x, canvasState.zoom)
  IN /\ (pointer.isDraggingNote /\ pointer.draggingNoteId \in NoteIds(notes)) =>
          x >= 0 /\ x <= MaxCoord
     /\ (~pointer.isDraggingNote /\ pointer.isDraggingCanvas) =>
          /\ canvasState.offset.x + p.x - pointer.lastMousePos.x <= MaxPan
          /\ canvasState.offset.x + p.x - pointer.lastMousePos.x >= -MaxPan

\* The wheel event that zooms out to half.
ZoomOutWheel == [ctrlKey |-> TRUE, deltaX |-> 0, deltaY |-> INITIAL_ZOOM \div 2]

PointerInit == GuestSession(NoData) /\ apiKey = "key"

PointerNext ==
  \/ addNote
  \/ canvasState.zoom = INITIAL_ZOOM /\ handleWheel(ZoomOutWheel)
  \/ \E p \in Pointers : handleMouseDown(p)
  \/ \E id \in NoteIds(notes), p \in Pointers : onNoteStartDrag(id, p)
  \/ \E p \in Pointers : DragStays(p) /\ handleMouseMove(p)
  \/ MouseUp
  \/ MouseLeave

SpecPointer == PointerInit /\ [][PointerNext]_vars

\* Every pointer handler on a canvas of one note.
ModesInit == GuestSession(NoData) /\ apiKey = "key"

ModesNext ==
  \/ \E p \in Pointers : handleMouseDown(p)
  \/ \E id \in NoteIds(notes), p \in Pointers : onNoteStartDrag(id, p)
  \/ \E p \in Pointers : DragStays(p) /\ handleMouseMove(p)
  \/ MouseUp
  \/ MouseLeave
  \/ \E id \in NoteIds(notes), p \in Pointers : handleResizeStart(id, p)
  \/ \E p \in Pointers : ResizeMove(p)

SpecModes == ModesInit /\ [][ModesNext]_vars

\* ------------------------------------------------------------ AI assist
\* The editor contents handleContentInput reads from innerHTML.
ContentInputs == {<<"edited">>, <<>>}

\* What ai.models.generateContent does: it throws, or answers with no text or with text.
Responses == {"thrown", "empty", "text"}

ResponseText == <<"Goal", "\n", "Steps">>

\* generateProjectIdeas: ok is FALSE where the call failed and the string is its message.
generateProjectIdeas(key, response) ==
  IF key = "" THEN [ok |-> FALSE, text |-> <<"API Key is missing.">>]
  ELSE IF response = "thrown" THEN [ok |-> FALSE, text |-> <<"Failed to generate ideas.">>]
  ELSE IF response = "empty" THEN [ok |-> FALSE, text |-> <<"No response generated.">>]
  ELSE [ok |-> TRUE, text |-> ResponseText]

\* suggestion.replace(/\n/g, '<br/>')
ReplaceNewlines(t) == [i \in 1..Len(t) |-> IF t[i] = "\n" THEN "<br/>" ELSE t[i]]

AiContent(content, suggestion) ==
  content \o <<"<br/><br/><strong>AI Suggestion:</strong><br/>">> \o ReplaceNewlines(suggestion)

handleContentInput(id, text) ==
  /\ id \in NoteIds(notes)
  /\ updateNote(id, [content |-> text])

\* handleAiBrainstorm up to the await: the button is disabled while the card is loading.
handleAiBrainstorm(id) ==
  /\ user # NoUser
  /\ id \in NoteIds(notes)
  /\ \A r \in aiReqs : r.id # id
  /\ Len(NoteAt(notes, id).content) <= MaxContent
  /\ aiReqs' = aiReqs \cup {[id |-> id, content |-> NoteAt(notes, id).content]}
  /\ ev' = Event("aiStart", TRUE)
  /\ UNCHANGED <<syncVars_but_ev, canvasVars, resizing, apiKey, scripts, unplaced, pointer>>

\* generateProjectIdeas returns: handleAiBrainstorm's onUpdate.
AiSettled(r, response) ==
  /\ r \in aiReqs
  /\ user # NoUser
  /\ SetNotes(updateNoteIn(notes, r.id,
                           [content |-> AiContent(r.content, generateProjectIdeas(apiKey, response).text)]))
  /\ aiReqs' = aiReqs \ {r}
  /\ ev' = Event("ai", generateProjectIdeas(apiKey, response).ok)
  /\ UNCHANGED <<nextId, canvasVars, resizing, apiKey, scripts, unplaced, pointer>>

AiInit == GuestSession(NoData) /\ apiKey \in {"", "key"}

AiNext ==
  \/ addNote
  \/ \E id \in NoteIds(notes), t \in ContentInputs : handleContentInput(id, t)
  \/ \E id \in NoteIds(notes) : deleteNote(id)
  \/ \E id \in NoteIds(notes) : handleAiBrainstorm(id)
  \/ \E r \in aiReqs, response \in Responses : AiSettled(r, response)

SpecAI == AiInit /\ [][AiNext]_vars

\* ------------------------------------------------------------ the Google scripts
EitherInited(a, b) == TRUE

\* "if (gisInited) onInit()" after gapiInited = true, and its mirror image.
BothInited(a, b) == a /\ b

\* The page state after a step of initGoogleScripts that left the module state sc: the
\* step invokes onInit, App's setIsGoogleReady(true), when it set a flag and both are set.
ScriptStep(sc, flagSet, type, ok) ==
  /\ scripts' = IF flagSet /\ BothInited(sc.gapiInited, sc.gisInited)
                THEN [sc EXCEPT !.calls = sc.calls + 1]
                ELSE sc
  /\ isGoogleReady' = IF flagSet /\ BothInited(sc.gapiInited, sc.gisInited)
                      THEN TRUE
                      ELSE isGoogleReady
  /\ ev' = Event(type, ok)
  /\ UNCHANGED <<user, isAuthLoading, authError, driveFileId, saveStatus, notes, timer,
                 inflight, loginPc, syncFile, syncNotes, localStore, drive, nextId, epoch,
                 mut, loginSnap, canvasVars, resizing, aiReqs, apiKey, unplaced, pointer>>

\* gapiLoaded up to window.gapi.load, whose callback runs later.
gapiLoaded(sc) == [sc EXCEPT !.gapiPc = "load", !.checkGapi = FALSE]

\* gisLoaded: initTokenClient when CLIENT_ID is set (ok is FALSE when it throws), then
\* gisInited = true.
gisLoaded(sc, ok) ==
  [sc EXCEPT !.tokenClient = sc.clientId # "" /\ ok, !.gisInited = TRUE, !.checkGis = FALSE]

\* The mount effect's call of initGoogleScripts: each script that is present is handled at
\* once, the other is polled.
initGoogleScripts(ok) ==
  /\ ~scripts.called
  /\ LET s0 == [scripts EXCEPT !.called = TRUE]
         s1 == IF s0.gapi THEN gapiLoaded(s0) ELSE [s0 EXCEPT !.checkGapi = TRUE]
         s2 == IF s1.google THEN gisLoaded(s1, ok) ELSE [s1 EXCEPT !.checkGis = TRUE]
     IN ScriptStep(s2, s1.google, "initScripts", s2.tokenClient \/ ~s1.google \/ s1.clientId = "")

\* A script tag finishes loading and defines its global.
GapiArrives ==
  /\ ~scripts.gapi
  /\ ScriptStep([scripts EXCEPT !.gapi = TRUE], FALSE, "script", TRUE)

GoogleArrives ==
  /\ ~scripts.google
  /\ ScriptStep([scripts EXCEPT !.google = TRUE], FALSE, "script", TRUE)

\* The polling intervals, when they find their global.
checkGapi ==
  /\ scripts.checkGapi /\ scripts.gapi
  /\ ScriptStep(gapiLoaded(scripts), FALSE, "checkGapi", TRUE)

checkGis(ok) ==
  /\ scripts.checkGis /\ scripts.google
  /\ ScriptStep(gisLoaded(scripts, ok), TRUE, "checkGis", scripts.clientId = "" \/ ok)

\* The callback of window.gapi.load: without API_KEY the initialization is skipped,
\* with it the callback awaits gapi.client.init.
GapiLoadCallback ==
  /\ scripts.gapiPc = "load"
  /\ IF apiKey = ""
     THEN ScriptStep([scripts EXCEPT !.gapiPc = "done", !.gapiInited = TRUE], TRUE,
                     "gapiCallback", TRUE)
     ELSE ScriptStep([scripts EXCEPT !.gapiPc = "init"], FALSE, "gapiCallback", TRUE)

\* gapi.client.init resolves, or rejects into the catch.
GapiInitSettled(ok) ==
  /\ scripts.gapiPc = "init"
  /\ ScriptStep([scripts EXCEPT !.gapiPc = "done", !.gapiInited = TRUE], TRUE, "gapiInit", ok)

ScriptsInit ==
  /\ PageState
  /\ apiKey \in {"", "key"}
  /\ scripts \in {ScriptsAtLoad(g, o, c) : g \in BOOLEAN, o \in BOOLEAN, c \in {"", "id"}}
  /\ localStore = NoData
  /\ drive = <<>>

ScriptsNext ==
  \/ \E ok \in BOOLEAN : initGoogleScripts(ok)
  \/ GapiArrives
  \/ GoogleArrives
  \/ checkGapi
  \/ \E ok \in BOOLEAN : checkGis(ok)
  \/ GapiLoadCallback
  \/ \E ok \in BOOLEAN : GapiInitSettled(ok)

SpecScripts == ScriptsInit /\ [][ScriptsNext]_vars

\* ------------------------------------------------------------ the view during a session
\* ProjectCard's handleCardMouseDown: a press inside the card of note id selects it.
handleCardMouseDown(id) ==
  /\ user # NoUser
  /\ id \in NoteIds(notes)
  /\ selectedNoteId' = id
  /\ ev' = Event("select", TRUE)
  /\ Render
  /\ UNCHANGED <<canvasState, cardVars>>

\* The wheel events of the view: a zoom in, a zoom out and pans both ways.
ViewWheel ==
  { [ctrlKey |-> TRUE, deltaX |-> 0, deltaY |-> dy] : dy \in {-ZoomStep, ZoomStep} } \cup
  { [ctrlKey |-> FALSE, deltaX |-> dx, deltaY |-> dx] : dx \in {-MaxPan, MaxPan} }

\* The zoom stays within MaxZoomSteps button steps of the initial zoom.
ZoomStays(z) ==
  z >= INITIAL_ZOOM - MaxZoomSteps * ZoomStep /\ z <= INITIAL_ZOOM + MaxZoomSteps * ZoomStep

ViewInit == GuestSession(NoData) /\ apiKey = "key"

ViewNext ==
  \/ \E id \in NoteIds(notes), t \in ContentInputs : handleContentInput(id, t)
  \/ Tick
  \/ \E ok \in BOOLEAN : TimerLocal(ok)
  \/ \E e \in ViewWheel :
        PanStays(e) /\ ZoomStays(canvasState.zoom - e.deltaY) /\ handleWheel(e)
  \/ ZoomStays(canvasState.zoom - ZoomStep) /\ ZoomOutButton
  \/ ZoomStays(canvasState.zoom + ZoomStep) /\ ZoomInButton
  \/ \E p \in Pointers : handleMouseDown(p)
  \/ \E p \in Pointers : DragStays(p) /\ handleMouseMove(p)
  \/ MouseUp
  \/ \E id \in NoteIds(notes) : handleCardMouseDown(id)

SpecView == ViewInit /\ [][ViewNext]_vars

\* ============================================================ claims
\* The write that settles in a step: index i of inflight.
Settles(i) == ev'.type = "settled" /\ inflight' = RemoveAt(inflight, i)

\* What the write just issued by the timer callback carries.
IssuedPayload ==
  IF UseCloudSave(user, driveFileId)
  THEN JSONstringify(inflight[Len(inflight)].data)
  ELSE localStore

\* C1: at any moment at most one persistence write (a debounced saveToDrive, or the
\* sync's creating saveToDrive) is in flight.
WritesInFlight == Len(inflight) + (IF loginPc = "create" THEN 1 ELSE 0)

C1_OneWriteInFlight == WritesInFlight <= 1

\* C2: after the last mutation of a burst no write is issued before the 2 s window ends,
\* exactly one is issued when it ends, and that one carries the notes of the last mutation.
BurstCoalesced ==
  /\ mut.since < SaveDebounceMs => mut.writes = 0
  /\ mut.since > SaveDebounceMs => mut.writes = 1
  /\ ev.type = "fire" => mut.since = SaveDebounceMs /\ mut.writes = 1
  /\ (ev.type = "fire" /\ ev.ok) => IssuedPayload = JSONstringify(mut.notes)

\* C2 as claimed: for any burst of a session.
C2_DebounceAnyBurst == mut.live => BurstCoalesced

\* C2 amended: for a burst during which the sign-in sync changes neither the document
\* handle nor the note collection.
C2_DebounceSteadyBurst == (mut.live /\ mut.steady) => BurstCoalesced

C2_Witness ==
  /\ mut.live /\ mut.steady /\ mut.count = 2
  /\ ev.type = "fire" /\ ev.ok
  /\ Len(mut.notes) >= 2

\* C3: a write that lands (on the Drive document or on local persistence) was captured
\* in the session that is current when it lands.
C3_NoStaleWriteLands ==
  [][\A i \in 1..Len(inflight) : (Settles(i) /\ ev'.ok) => inflight[i].epoch = epoch]_vars

\* C4: a sign-in that finds no Drive document while local persistence holds a non-empty
\* collection L ends its sync with notes = L, a new document holding L, and that
\* document's handle in driveFileId (the user neither edits nor signs out meanwhile).
MigrationCase ==
  /\ ev.type = "create" /\ ev.ok
  /\ loginSnap.clean
  /\ ~loginSnap.hadDoc
  /\ Len(LocalNotes(loginSnap.local)) > 0

C4_MigrationAdoptsLocal ==
  MigrationCase =>
    /\ notes = LocalNotes(loginSnap.local)
    /\ driveFileId = Len(drive)
    /\ driveFileId # NoFile
    /\ drive[driveFileId] = JSONstringify(LocalNotes(loginSnap.local))

\* C5: a failed lookup, or a failed creation, during sign-in leaves the status at error
\* and the sync stopped; a failed lookup does not go on to create a document.
C5_SyncFailureIsError ==
  /\ (ev.type = "find" /\ ~ev.ok) => (saveStatus = "error" /\ loginPc = "idle")
  /\ (ev.type = "create" /\ ~ev.ok) => saveStatus = "error"

\* C6: a failed debounced write sets the status to error and leaves the notes alone; a
\* mutation sets the status to saving; the write its timer issues carries the whole
\* current collection; a write that succeeds sets the status to saved.
C6_WriteFailureRecovers ==
  [][/\ (ev'.type \in {"fire", "settled"} /\ ~ev'.ok) => (saveStatus' = "error" /\ notes' = notes)
     /\ ev'.type = "mutate" => saveStatus' = "saving"
     /\ (ev'.type = "fire" /\ UseCloudSave(user, driveFileId)) =>
           inflight'[Len(inflight')].data = notes
     /\ (ev'.type = "fire" /\ ev'.ok /\ ~UseCloudSave(user, driveFileId)) =>
           (localStore' = JSONstringify(notes) /\ saveStatus' = "saved")
     /\ (ev'.type = "settled" /\ ev'.ok) => saveStatus' = "saved"]_vars

\* A write failed, the user edited, and the edit's write succeeded.
C6_Witness ==
  /\ mut.live /\ mut.failed /\ mut.writes = 1
  /\ ev.type \in {"fire", "settled"} /\ ev.ok
  /\ saveStatus = "saved"
  /\ Len(notes) >= 1
  /\ IF UseCloudSave(user, driveFileId)
     THEN drive[driveFileId] = JSONstringify(notes)
     ELSE localStore = JSONstringify(notes)

\* C9: the timer callback of a cloud session with a handle issues one request for that
\* handle and leaves local persistence and the set of Drive files alone, and the request
\* overwrites that file only; the callback of a guest session overwrites local persistence
\* and touches neither Drive nor the requests in flight.
C9_SaveTarget ==
  [][/\ (ev'.type = "fire" /\ user = CloudUser /\ driveFileId # NoFile) =>
           /\ localStore' = localStore
           /\ drive' = drive
           /\ Len(inflight') = Len(inflight) + 1
           /\ inflight'[Len(inflight')].fileId = driveFileId
     /\ \A i \in 1..Len(inflight) : (Settles(i) /\ ev'.ok) =>
           /\ Len(drive') = Len(drive)
           /\ drive' = [drive EXCEPT ![inflight[i].fileId] = JSONstringify(inflight[i].data)]
           /\ localStore' = localStore
     /\ (ev'.type = "fire" /\ user = GuestUser) =>
           /\ ev'.ok => localStore' = JSONstringify(notes)
           /\ drive' = drive
           /\ inflight' = inflight]_vars

C9_Witness ==
  /\ ev.type = "settled" /\ ev.ok
  /\ user = CloudUser /\ driveFileId # NoFile
  /\ Len(notes) >= 1
  /\ drive[driveFileId] = JSONstringify(notes)

\* C7: after every updateNote that sets width and/or height, from the resize handle or
\* from any other caller, every note of the store is at least 300 wide and 200 high.
C7_SizeFloors ==
  \A i \in 1..Len(notes) : notes[i].width >= MinWidth /\ notes[i].height >= MinHeight

\* The rectangle of a, expanded by the gap on all sides, intersects the rectangle of b.
GapIntersects(a, b) ==
  /\ a.x - Gap < b.x + b.width
  /\ b.x < a.x + a.width + Gap
  /\ a.y - Gap < b.y + b.height
  /\ b.y < a.y + a.height + Gap

\* C8 as claimed: no two notes created by addNote against the same store intersect, the
\* gap included, at any view and for any number of creations.
C8_AllNotesKeepGap ==
  \A i \in 1..Len(notes), j \in 1..Len(notes) : i # j => ~GapIntersects(notes[i], notes[j])

\* C8 amended: a note whose placement search found a free cell within its 100 steps does
\* not intersect, the gap included, any note created before it.
C8_PlacedNotesKeepGap ==
  \A i \in 1..Len(notes), j \in 1..Len(notes) :
     (i < j /\ notes[j].id \notin unplaced) =>
        (~GapIntersects(notes[i], notes[j]) /\ ~GapIntersects(notes[j], notes[i]))

C8_Witness ==
  /\ Len(notes) >= 3
  /\ canvasState.zoom # INITIAL_ZOOM
  /\ LET p == PlaceNote(SubSeq(notes, 1, Len(notes) - 1), canvasState)
     IN /\ p.found /\ p.steps >= 2
        /\ notes[Len(notes)].x = p.x /\ notes[Len(notes)].y = p.y
        /\ notes[Len(notes)].id \notin unplaced

\* The content of note id, none when the store holds no such note.
ContentOf(ns, id) == IF id \in NoteIds(ns) THEN NoteAt(ns, id).content ELSE <<"none">>

\* C10: an AI-assist call that fails (no API key, a thrown error, an empty response)
\* leaves the content of its note as it was; text is appended only on success.
C10_FailureLeavesContent ==
  [][\A r \in aiReqs :
        (aiReqs' = aiReqs \ {r} /\ ev'.type = "ai" /\ ~ev'.ok) =>
           ContentOf(notes', r.id) = ContentOf(notes, r.id)]_vars

\* C11: a guest entry that finds no local note data, or a payload that is not a
\* well-formed note collection, ends with exactly the default welcome note (400 x 300) in
\* the store, and no error propagates.
C11_GuestEntrySeedsDefault ==
  [][(user = NoUser /\ ev'.type = "guest" /\ localStore.kind # "array") =>
        (ev'.ok /\ notes' = getDefaultNotes(nextId))]_vars

\* C12: after any sequence of wheel events, with or without the modifier key, and of
\* zoom button presses, the zoom lies within [MIN_ZOOM, MAX_ZOOM].
C12_ZoomInRange == MIN_ZOOM <= canvasState.zoom /\ canvasState.zoom <= MAX_ZOOM

C12_Witness ==
  /\ ev.type = "wheel"
  /\ canvasState.zoom = MAX_ZOOM
  /\ canvasState.offset.x # 0

\* C13: every failure (of the sign-in, of the lookup, read or creation of the sync, of a
\* debounced write, of the AI assist) leaves the in-memory note collection as it was
\* before the failing operation.
C13_FailureKeepsNotes == [][~ev'.ok => notes' = notes]_vars

\* C14: after sign-out, from any session state, the session is absent, the note
\* collection is empty and the document handle is absent until the next guest entry or
\* sign-in; no completion of an operation started before the sign-out repopulates them.
C14_SignedOutStaysEmpty == user = NoUser => (notes = <<>> /\ driveFileId = NoFile)

\* C15: exiting guest mode neither writes nor clears local persistence, nothing writes
\* it while no session exists, and the next guest entry loads the collection that was
\* persisted last.
C15_GuestExitKeepsLocal ==
  [][/\ (user = GuestUser /\ user' = NoUser) => (localStore' = localStore /\ ~timer'.active)
     /\ (user = NoUser /\ user' = NoUser) => localStore' = localStore
     /\ (user = NoUser /\ user' = GuestUser /\ localStore.kind = "array") =>
           notes' = localStore.val]_vars

C15_Witness ==
  /\ ev.type = "guest"
  /\ epoch = 2
  /\ localStore.kind = "array"
  /\ Len(notes) = 2
  /\ notes = localStore.val

\* C16: a rejected or misconfigured cloud sign-in leaves the user unauthenticated, sets
\* the inline auth error, and changes neither the notes, the document handle nor the
\* locally persisted guest data.
C16_RejectedSignInKeepsState ==
  [][(ev'.type = "signIn" /\ ~ev'.ok) =>
        /\ user' = NoUser
        /\ authError' # ""
        /\ notes' = notes
        /\ driveFileId' = driveFileId
        /\ localStore' = localStore]_vars

C16_Witness ==
  /\ ev = Event("signIn", FALSE)
  /\ user = NoUser
  /\ authError # ""
  /\ localStore = JSONstringify(SavedGuestNotes)

\* C17: updateNote and deleteNote with an id that is not in the store leave the note
\* collection unchanged (same notes, same order, same field values) and raise no error.
C17_UnknownIdIsNoOp == [][ev'.type = "mutateStale" => (notes' = notes /\ ev'.ok)]_vars

C17_Witness ==
  /\ ev.type = "mutateStale"
  /\ Len(notes) = 2
  /\ \E i \in 1..Len(notes) : notes[i].width # NoteWidth /\ notes[i].width # DefaultWidth

\* C18: after any sequence of createNote, updateNote (with any partial field set) and
\* deleteNote, the notes of the store have pairwise distinct ids.
C18_DistinctIds ==
  \A i \in 1..Len(notes), j \in 1..Len(notes) : i # j => notes[i].id # notes[j].id

\* The position addNote desires: the view centre less half the note.
DesiredX(cs) == DivZoom(-cs.offset.x + InnerWidth \div 2, cs.zoom) - NoteWidth \div 2

DesiredY(cs) == DivZoom(-cs.offset.y + InnerHeight \div 2, cs.zoom) - NoteHeight \div 2

\* C19: when the desired position overlaps an existing note and the grid cell one step to
\* the right (desired.x + width + gap, desired.y) is free, the created note is placed
\* exactly at that cell.
C19_FirstCandidateIsRight ==
  [][(/\ Len(notes') = Len(notes) + 1
      /\ checkOverlap(notes, DesiredX(canvasState), DesiredY(canvasState))
      /\ ~checkOverlap(notes, DesiredX(canvasState) + NoteWidth + Gap, DesiredY(canvasState)))
     => (/\ notes'[Len(notes')].x = DesiredX(canvasState) + NoteWidth + Gap
         /\ notes'[Len(notes')].y = DesiredY(canvasState))]_vars

C19_Witness ==
  /\ Len(notes) = 2
  /\ canvasState.offset.x # 0
  /\ checkOverlap(SubSeq(notes, 1, 1), DesiredX(canvasState), DesiredY(canvasState))
  /\ notes[2].x = DesiredX(canvasState) + NoteWidth + Gap
  /\ notes[2].y = DesiredY(canvasState)

\* A mutation of the session awaits its write.
MutationPending == user # NoUser /\ mut.live /\ mut.writes = 0

\* The store the session saves to holds the current note collection.
Persisted ==
  IF UseCloudSave(user, driveFileId)
  THEN drive[driveFileId] = JSONstringify(notes)
  ELSE localStore = JSONstringify(notes)

\* C20: after a note mutation, when the backend calls succeed, eventually the session has
\* ended, or a write whose payload is the current note collection has been performed and
\* the status is saved.
C20_MutationIsPersisted ==
  MutationPending ~> (user = NoUser \/ (saveStatus = "saved" /\ Persisted))

C20_Witness ==
  /\ ev = Event("settled", TRUE)
  /\ user = CloudUser
  /\ mut.live /\ mut.writes >= 1
  /\ saveStatus = "saved"
  /\ UseCloudSave(user, driveFileId) /\ Persisted

\* C21: when the placement search finds no free cell within its 100 steps, the note is
\* placed at the last candidate cell tested, the 100th cell of the spiral.
C21_FallbackIsLastCandidate ==
  [][(Len(notes') = Len(notes) + 1 /\ ~PlaceNote(notes, canvasState).found) =>
        /\ PlaceNote(notes, canvasState).steps = SpiralSteps
        /\ notes'[Len(notes')].x =
              DesiredX(canvasState) + PlaceNote(notes, canvasState).cx * (NoteWidth + Gap)
        /\ notes'[Len(notes')].y =
              DesiredY(canvasState) + PlaceNote(notes, canvasState).cy * (NoteHeight + Gap)]_vars

\* C22: under any order of pointer presses, moves and releases the canvas-panning flag and
\* the note-dragging flag are never both set, and draggingNoteId is non-null exactly when
\* the note-dragging flag is set.
C22_ModesExclusive ==
  /\ ~(pointer.isDraggingCanvas /\ pointer.isDraggingNote)
  /\ (pointer.draggingNoteId # 0) <=> pointer.isDraggingNote

\* C23: after a pointer release, or after the pointer has left the canvas, and until the
\* next press, no step changes the canvas offset or the geometry of a note.
C23_ReleaseReturnsToIdle ==
  [][(pointer.released /\ pointer'.released) =>
        /\ notes' = notes
        /\ canvasState'.offset = canvasState.offset]_vars

\* C24: while a note is dragged, a pointer move of (dx, dy) screen pixels adds exactly
\* (dx / zoom, dy / zoom) to that note's x and y and changes nothing else: its other fields,
\* every other note and the canvas offset and zoom stay as they were.
C24_DragIsZoomCompensated ==
  [][(ev'.type = "mouseMove" /\ pointer.isDraggingNote
        /\ pointer.draggingNoteId \in NoteIds(notes)) =>
       LET dx == pointer'.lastMousePos.x - pointer.lastMousePos.x
           dy == pointer'.lastMousePos.y - pointer.lastMousePos.y
       IN /\ Len(notes') = Len(notes)
          /\ \A i \in 1..Len(notes) :
                IF notes[i].id = pointer.draggingNoteId
                THEN /\ (notes'[i].x - notes[i].x) * canvasState.zoom = dx * 1000
                     /\ (notes'[i].y - notes[i].y) * canvasState.zoom = dy * 1000
                     /\ notes'[i] = [notes[i] EXCEPT !.x = notes'[i].x, !.y = notes'[i].y]
                ELSE notes'[i] = notes[i]
          /\ canvasState' = canvasState]_vars

C24_Witness ==
  /\ ev.type = "mouseMove"
  /\ pointer.isDraggingNote
  /\ pointer.draggingNoteId = 1
  /\ canvasState.zoom = INITIAL_ZOOM \div 2
  /\ Len(notes) = 2
  /\ notes[1].x # getDefaultNotes(1)[1].x

\* C25: a mutation of the note collection sets saveStatus to saving in the step that
\* (re)starts the debounce timer with the full delay and the new collection, whatever the
\* status was before, and that step issues no write.
C25_SavingAtTimerStart ==
  [][ev'.type \in {"mutate", "mutateStale"} =>
        /\ saveStatus' = "saving"
        /\ timer' = [active |-> TRUE, left |-> SaveDebounceMs, notes |-> notes',
                     user |-> user, fileId |-> driveFileId]
        /\ inflight' = inflight
        /\ localStore' = localStore
        /\ drive' = drive]_vars

\* A mutation after a failed write: the status was error and is saving again.
C25_Witness ==
  /\ ev.type = "mutate"
  /\ mut.failed
  /\ mut.since = 0
  /\ saveStatus = "saving"
  /\ timer.active /\ timer.left = SaveDebounceMs

\* The persistence target of the session holds the collection in memory.
TargetHolds ==
  IF user = CloudUser
  THEN driveFileId # NoFile /\ drive[driveFileId] = JSONstringify(notes)
  ELSE localStore = JSONstringify(notes)

\* C26: in a session saveStatus is saved only when no debounce timer is pending, no write
\* is in flight and the session's persistence target (the Drive document of a cloud
\* session, local persistence of a guest session) holds the collection in memory.
C26_SavedMeansClean ==
  (user # NoUser /\ saveStatus = "saved") =>
     /\ ~timer.active
     /\ inflight = <<>>
     /\ TargetHolds

\* C27: when the sign-in sync found the Drive document and reading it failed, no step
\* changes the content of Drive as long as the user has not mutated the collection.
C27_FailedReadKeepsRemote ==
  [][(user = CloudUser /\ loginSnap.readFailed /\ loginSnap'.readFailed /\ loginSnap'.clean) =>
        drive' = drive]_vars

\* C28: from the resolution of a cloud sign-in until its sync has finished, no step writes
\* local persistence.
C28_NoLocalWriteDuringSync ==
  [][(user = CloudUser /\ loginPc # "idle") => localStore' = localStore]_vars

\* C29: in a cloud session with a document, once the sync is over, no timer is pending and
\* every issued write has completed successfully, the document holds the collection in
\* memory.
C29_RemoteWritesInOrder ==
  (user = CloudUser /\ driveFileId # NoFile /\ loginPc = "idle" /\ ~timer.active
     /\ inflight = <<>>) =>
     drive[driveFileId] = JSONstringify(notes)

\* C30: when an AI-assist request completes with text, the content of its note is the
\* content the note had at completion with the suggestion appended, and a note deleted
\* meanwhile stays deleted.
C30_EditDuringRequestIsKept ==
  [][\A r \in aiReqs :
        (aiReqs' = aiReqs \ {r} /\ ev'.type = "ai" /\ ev'.ok) =>
           IF r.id \in NoteIds(notes)
           THEN ContentOf(notes', r.id) = AiContent(ContentOf(notes, r.id), ResponseText)
           ELSE notes' = notes]_vars

\* A step of a canvas-only interaction: wheel pan or zoom, a zoom button, a press on the
\* canvas, a pan by drag, a release, the selection of a note.
CanvasOnlyStep ==
  \/ ev'.type \in {"wheel", "zoomOut", "zoomIn", "select", "mouseDown", "mouseUp"}
  \/ ev'.type = "mouseMove" /\ ~pointer.isDraggingNote

\* C31: a canvas-only interaction leaves the note collection, the debounce timer,
\* saveStatus, local persistence, Drive and the requests in flight as they were.
C31_CanvasLeavesStore ==
  [][CanvasOnlyStep =>
        /\ notes' = notes
        /\ timer' = timer
        /\ saveStatus' = saveStatus
        /\ localStore' = localStore
        /\ drive' = drive
        /\ inflight' = inflight]_vars

\* The view was panned and zoomed after the last write, and the status is still saved.
C31_Witness ==
  /\ ev.type \in {"wheel", "mouseMove"}
  /\ canvasState.offset.x # 0
  /\ canvasState.zoom # INITIAL_ZOOM
  /\ selectedNoteId = 1
  /\ saveStatus = "saved"
  /\ ~timer.active
  /\ mut.writes >= 1

\* Both the API client load and the identity-services load have finished.
BothLoadsFinished == scripts.gapiPc = "done" /\ scripts.gisInited

\* C32: for the call of initGoogleScripts, onInit has been invoked once when both the API
\* client load and the identity-services load have finished and not at all before, in
\* whichever order they finish and whether an initialization succeeded, failed or was
\* skipped; isGoogleReady is set exactly by that invocation.
C32_OnInitOnceAfterBoth ==
  /\ scripts.calls = (IF BothLoadsFinished THEN 1 ELSE 0)
  /\ isGoogleReady <=> scripts.calls = 1

\* gapi.client.init failed after the identity services were skipped for a missing client id.
C32_Witness ==
  /\ ev = Event("gapiInit", FALSE)
  /\ scripts.clientId = ""
  /\ ~scripts.tokenClient
  /\ scripts.gisInited
  /\ scripts.calls = 1
  /\ isGoogleReady

====
